---- MODULE Spec2Model ----
(***************************************************************************)
(* Interface definition scanners of tstellar/ids.  The repository holds    *)
(* four copies of the declaration-classification visitor:                  *)
(*   "idt"           src/Sources/idt/idt.cc, lines 1-362                   *)
(*   "idt_ignore"    src/Sources/idt/idt.cc, lines 364-586                 *)
(*   "libtool_fixit" src/unnamed/part_000                                   *)
(*   "libtool"       src/Sources/libtool/libtool.cc                         *)
(* A run parses the command line, traverses the declarations of one        *)
(* translation unit, calls the Visit* callbacks the tool defines on each   *)
(* declaration, and collects the remarks they report.                      *)
(***************************************************************************)
EXTENDS Naturals, Sequences, FiniteSets

VARIABLES
  tool,              \* which of the four programs is running
  argv,              \* the command line it was started with
  annotateClasses,   \* llvm::cl::opt<bool> annotateClasses
  apply_fixits,      \* llvm::cl::opt<bool> apply_fixits
  ignored_functions, \* llvm::cl::list<std::string> ignored_functions
  ignoredCache,      \* the function-local static of get_ignored_functions()
  pc,                \* position of main / HandleTranslationUnit
  visited,           \* number of declarations handed to the visitor so far
  cur,               \* the declaration being visited
  pending,           \* Visit* callbacks still to run on cur
  diags,             \* remarks reported so far, in report order
  written            \* WriteFixedFiles() has run

vars == <<tool, argv, annotateClasses, apply_fixits, ignored_functions,
          ignoredCache, pc, visited, cur, pending, diags, written>>

----------------------------------------------------------------------------
\* Bounds of the model.

\* Declarations in the translation unit.
MaxDecls == 2
\* Skip conditions (path, system header, body, ...) one declaration raises at once.
MaxFlags == 1
\* Function names given to -ignore on the command line, over all occurrences.
MaxIgnoreNames == 2

----------------------------------------------------------------------------
\* Tools and their options.

Tools == {"idt", "idt_ignore", "libtool_fixit", "libtool"}

\* The builtin forward declarations a tool never reports.
idt_kIgnoredFunctions ==
  {"_BitScanForward", "_BitScanForward64", "_BitScanReverse",
   "_BitScanReverse64", "__builtin_strlen"}

fixit_kIgnoredFunctions ==
  {"_BitScanForward", "_BitScanForward64", "_BitScanReverse",
   "_BitScanReverse64", "__builtin_strlen"}

libtool_kIgnoredFunctions ==
  {"_BitScanForward", "_BitScanForward64", "_BitScanReverse",
   "_BitScanReverse64", "__builtin_strlen"}

\* The value of -export-macro (llvm::cl::Required).
export_macro == "IDT_TEST_ABI"

\* A value of one -ignore occurrence, as the characters between commas and
\* the commas themselves: "f,g" is <<"f", ",", "g">>.
IgnoreValues == {<<"f">>, <<"g">>, <<"f", ",", "g">>}

\* The number of names in one value.
NamesIn(value) == (Len(value) + 1) \div 2

\* The sequences of -ignore values that give at most n names.
RECURSIVE IgnoreArgs(_)
IgnoreArgs(n) ==
  IF n = 0 THEN {<<>>}
  ELSE {<<>>} \cup
       UNION {{<<v>> \o rest : rest \in IgnoreArgs(n - NamesIn(v))} :
              v \in {w \in IgnoreValues : NamesIn(w) <= n}}

\* llvm::cl::CommaSeparated: one occurrence's value is cut at every comma
\* and every piece is appended to the list.
RECURSIVE SplitCommas(_, _)
SplitCommas(value, piece) ==
  IF value = <<>> THEN <<piece>>
  ELSE IF Head(value) = ","
       THEN <<piece>> \o SplitCommas(Tail(value), "")
       ELSE SplitCommas(Tail(value), Head(value))

RECURSIVE ParseIgnore(_)
ParseIgnore(values) ==
  IF values = <<>> THEN <<>>
  ELSE SplitCommas(Head(values), "") \o ParseIgnore(Tail(values))

Range(s) == {s[i] : i \in DOMAIN s}

\* std::set<std::string>{ignored_functions.begin(), ignored_functions.end()}
get_ignored_functions(list) == Range(list)

contains(set, key) == key \in set

\* The static before its first use.
NotBuilt == [built |-> FALSE, names |-> {}]
Built(set) == [built |-> TRUE, names |-> set]

----------------------------------------------------------------------------
\* Declarations, as the predicates the visitors ask of them.

B2N(b) == IF b THEN 1 ELSE 0

Attrs == {"none", "export", "import", "visibility"}

FunctionNames == {"f", "h", "_BitScanForward"}

\* FunctionDecl and CXXMethodDecl.
FunctionShape ==
  [kind : {"Function", "Method"},
   name : FunctionNames,
   pathInternal : BOOLEAN,          \* "/lib/", "/tools/" or ".def" in the file name
   is_in_system_header : BOOLEAN,
   is_dependent_context : BOOLEAN,
   has_body : BOOLEAN,              \* doesThisDeclarationHaveABody()
   redecl_has_body : BOOLEAN,       \* another declaration of it has the body
   is_friend : BOOLEAN,             \* getFriendObjectKind() != FOK_None
   is_deleted : BOOLEAN,
   is_defaulted : BOOLEAN,
   is_pure_virtual : BOOLEAN,
   access : {"none", "public", "protected", "private"},
   export_attr : Attrs,
   template_kind : {"non_template", "explicit_specialization"}]

FunctionFlags(d) ==
  B2N(d.pathInternal) + B2N(d.is_in_system_header) + B2N(d.is_dependent_context)
  + B2N(d.has_body) + B2N(d.redecl_has_body) + B2N(d.is_friend)
  + B2N(d.is_deleted) + B2N(d.is_defaulted) + B2N(d.is_pure_virtual)

FunctionFacts ==
  {d \in FunctionShape :
     /\ (d.kind = "Function") = (d.access = "none")
     /\ d.is_pure_virtual => d.kind = "Method"
     /\ FunctionFlags(d) <= MaxFlags}

\* CXXRecordDecl that is not a class-template specialization.
RecordShape ==
  [kind : {"Record"},
   name : {"record", "LLVM_ABI"},
   pathInternal : BOOLEAN,
   is_in_system_header : BOOLEAN,
   is_complete_definition : BOOLEAN,
   is_nested : BOOLEAN,             \* llvm::isa<RecordDecl>(CD->getParent())
   included : BOOLEAN,              \* its file was entered by an #include
   tag : {"class", "struct", "union"},
   export_attr : Attrs,
   template_kind : {"non_template"}]

\* ClassTemplateSpecializationDecl (a CXXRecordDecl too).
CTSDShape ==
  [kind : {"CTSD"},
   name : {"record"},
   pathInternal : BOOLEAN,
   is_in_system_header : BOOLEAN,
   is_complete_definition : BOOLEAN,
   is_nested : BOOLEAN,
   included : BOOLEAN,
   tag : {"class", "struct"},
   export_attr : Attrs,
   template_kind : {"explicit_specialization", "explicit_instantiation_decl",
                    "explicit_instantiation_def"}]

RecordFlags(d) ==
  B2N(d.pathInternal) + B2N(d.is_in_system_header) + B2N(~d.is_complete_definition)
  + B2N(d.is_nested) + B2N(~d.included)

RecordFacts == {d \in RecordShape \cup CTSDShape : RecordFlags(d) <= MaxFlags}

\* VarDecl.
VarShape ==
  [kind : {"Var"},
   name : {"v", "_BitScanForward"},
   pathInternal : BOOLEAN,
   is_in_system_header : BOOLEAN,
   has_external_storage : BOOLEAN,
   export_attr : Attrs]

VarFlags(d) == B2N(d.pathInternal) + B2N(d.is_in_system_header)

VarFacts == {d \in VarShape : VarFlags(d) <= MaxFlags}

Facts == FunctionFacts \cup RecordFacts \cup VarFacts

FunctionKinds == {"Function", "Method"}
RecordKinds == {"Record", "CTSD"}
NoDecl == [kind |-> "none"]

----------------------------------------------------------------------------
\* Remarks.

Unexported == "unexported public interface"
ExportedPrivate == "exported private interface"

Listed == "listed"

Loc(anchor, offset, valid) == [anchor |-> anchor, offset |-> offset, valid |-> valid]

\* "<< clang::FixItHint": a hint at an invalid location is a null hint, and
\* the diagnostic builder does not take it.
AddFixItHints(fixits) == SelectSeq(fixits, LAMBDA h : h.at.valid)

\* A report on declaration d ("<< FD"): the message and the fix-its it carries.
Remark(id, d, fixits) == [id |-> id, fixits |-> AddFixItHints(fixits)]

\* clang::FixItHint::CreateInsertion(insertion_point, export_macro + " ")
CreateInsertion(insertion_point) ==
  [at |-> insertion_point, text |-> <<export_macro, " ">>]

hasAttr(d, a) == d.export_attr = a

\* llvm::isa<clang::FriendDecl>(FD): a FunctionDecl is never a FriendDecl.
isa_FriendDecl(d) == d.kind = "Friend"

isa_CXXMethodDecl(d) == d.kind = "Method"

\* FunctionDecl::hasBody(): some declaration of the function has the body.
hasBody(d) == d.has_body \/ d.redecl_has_body

hasExportAttr(d) ==
  hasAttr(d, "export") \/ hasAttr(d, "import") \/ hasAttr(d, "visibility")

hasDllAttr(d) == hasAttr(d, "export") \/ hasAttr(d, "import")

\* filename.find("/lib/") / find("/tools/") / find(".def")
isInternalPath(d) == d.pathInternal

\* FD->getTemplatedKind() == TK_NonTemplate ? getBeginLoc() : getInnerLocStart()
FunctionInsertionPoint(d) ==
  IF d.template_kind = "non_template" THEN Loc("BeginLoc", 0, TRUE)
  ELSE Loc("InnerLocStart", 0, TRUE)

\* CTSD->getExternLoc(): the 'extern' of an explicit instantiation
\* declaration, an invalid location when there is none.
getExternLoc(d) ==
  Loc("ExternLoc", 0, d.template_kind = "explicit_instantiation_decl")

----------------------------------------------------------------------------
\* idt (idt.cc, first program).

\* idt_VisitFunctionDecl without the body check of line 115.
idt_VisitFunctionDecl_NoBody(d, annotate) ==
  IF isInternalPath(d) THEN <<>>
  ELSE IF d.is_in_system_header THEN <<>>
  ELSE IF d.is_dependent_context THEN <<>>
  ELSE IF isa_FriendDecl(d) THEN <<>>
  ELSE IF d.is_friend THEN <<>>
  ELSE IF d.is_deleted \/ d.is_defaulted THEN <<>>
  ELSE IF isa_CXXMethodDecl(d) /\ annotate THEN <<>>
  ELSE IF isa_CXXMethodDecl(d) /\ d.access = "private"
       THEN IF hasAttr(d, "export")
            THEN <<Remark(ExportedPrivate, d, <<>>)>>
            ELSE <<>>
  ELSE IF isa_CXXMethodDecl(d) /\ d.is_pure_virtual THEN <<>>
  ELSE IF hasExportAttr(d) THEN <<>>
  ELSE IF contains(idt_kIgnoredFunctions, d.name) THEN <<>>
  ELSE <<Remark(Unexported, d, <<CreateInsertion(FunctionInsertionPoint(d))>>)>>

idt_VisitFunctionDecl(d, annotate) ==
  IF isInternalPath(d) THEN <<>>
  ELSE IF d.is_in_system_header THEN <<>>
  ELSE IF d.is_dependent_context THEN <<>>
  ELSE IF d.has_body THEN <<>>
  ELSE IF isa_FriendDecl(d) THEN <<>>
  ELSE IF d.is_friend THEN <<>>
  ELSE IF d.is_deleted \/ d.is_defaulted THEN <<>>
  ELSE IF isa_CXXMethodDecl(d) /\ annotate THEN <<>>
  ELSE IF isa_CXXMethodDecl(d) /\ d.access = "private"
       THEN IF hasAttr(d, "export")
            THEN <<Remark(ExportedPrivate, d, <<>>)>>
            ELSE <<>>
  ELSE IF isa_CXXMethodDecl(d) /\ d.is_pure_virtual THEN <<>>
  ELSE IF hasExportAttr(d) THEN <<>>
  ELSE IF contains(idt_kIgnoredFunctions, d.name) THEN <<>>
  ELSE <<Remark(Unexported, d, <<CreateInsertion(FunctionInsertionPoint(d))>>)>>

idt_VisitClassTemplateSpecializationDecl(d) ==
  IF isInternalPath(d) THEN <<>>
  ELSE IF hasExportAttr(d) THEN <<>>
  ELSE <<Remark(Unexported, d, <<CreateInsertion(getExternLoc(d))>>)>>

idt_VisitVarDecl(d) ==
  IF isInternalPath(d) THEN <<>>
  ELSE IF hasExportAttr(d) THEN <<>>
  ELSE IF ~d.has_external_storage THEN <<>>
  ELSE <<Remark(Unexported, d, <<CreateInsertion(Loc("BeginLoc", 0, TRUE))>>)>>

\* int offset = 6; if (CD->isStruct()) offset = 7;
\* The offset, were "struct" not told from "class".
RecordKeywordOffset_Always6(d) == 6

RecordKeywordOffset(d) == IF d.tag = "struct" THEN 7 ELSE 6

\* VisitCXXRecordDecl without its union guard.
idt_VisitCXXRecordDecl_NoUnion(d, annotate) ==
  IF ~annotate THEN <<>>
  ELSE IF d.name = "LLVM_ABI" THEN <<>>
  ELSE IF isInternalPath(d) THEN <<>>
  ELSE IF d.is_in_system_header THEN <<>>
  ELSE IF ~d.is_complete_definition THEN <<>>
  ELSE IF d.is_nested THEN <<>>
  ELSE IF hasExportAttr(d) THEN <<>>
  ELSE IF ~d.included THEN <<>>
  ELSE IF d.template_kind \in {"explicit_instantiation_decl",
                               "explicit_instantiation_def"} THEN <<>>
  ELSE <<Remark(Unexported, d,
                <<CreateInsertion(Loc("BeginLoc", RecordKeywordOffset(d), TRUE))>>)>>

idt_VisitCXXRecordDecl(d, annotate) ==
  IF ~annotate THEN <<>>
  ELSE IF d.name = "LLVM_ABI" THEN <<>>
  ELSE IF isInternalPath(d) THEN <<>>
  ELSE IF d.is_in_system_header THEN <<>>
  ELSE IF ~d.is_complete_definition THEN <<>>
  ELSE IF d.is_nested THEN <<>>
  ELSE IF hasExportAttr(d) THEN <<>>
  ELSE IF d.tag = "union" THEN <<>>
  ELSE IF ~d.included THEN <<>>
  ELSE IF d.template_kind \in {"explicit_instantiation_decl",
                               "explicit_instantiation_def"} THEN <<>>
  ELSE <<Remark(Unexported, d,
                <<CreateInsertion(Loc("BeginLoc", RecordKeywordOffset(d), TRUE))>>)>>

----------------------------------------------------------------------------
\* idt_ignore (idt.cc, second program).

\* idt2_VisitFunctionDecl without the ignore-list check of line 505.
idt2_VisitFunctionDecl_NoIgnore(d, ignored) ==
  IF d.is_in_system_header THEN <<>>
  ELSE IF d.is_dependent_context THEN <<>>
  ELSE IF hasBody(d) THEN <<>>
  ELSE IF isa_FriendDecl(d) THEN <<>>
  ELSE IF d.is_deleted \/ d.is_defaulted THEN <<>>
  ELSE IF isa_CXXMethodDecl(d) /\ d.access = "private"
       THEN IF hasAttr(d, "export")
            THEN <<Remark(ExportedPrivate, d, <<>>)>>
            ELSE <<>>
  ELSE IF isa_CXXMethodDecl(d) /\ d.is_pure_virtual THEN <<>>
  ELSE IF hasDllAttr(d) THEN <<>>
  ELSE <<Remark(Unexported, d, <<CreateInsertion(FunctionInsertionPoint(d))>>)>>

idt2_VisitFunctionDecl(d, ignored) ==
  IF d.is_in_system_header THEN <<>>
  ELSE IF d.is_dependent_context THEN <<>>
  ELSE IF hasBody(d) THEN <<>>
  ELSE IF isa_FriendDecl(d) THEN <<>>
  ELSE IF d.is_deleted \/ d.is_defaulted THEN <<>>
  ELSE IF isa_CXXMethodDecl(d) /\ d.access = "private"
       THEN IF hasAttr(d, "export")
            THEN <<Remark(ExportedPrivate, d, <<>>)>>
            ELSE <<>>
  ELSE IF isa_CXXMethodDecl(d) /\ d.is_pure_virtual THEN <<>>
  ELSE IF hasDllAttr(d) THEN <<>>
  ELSE IF contains(ignored, d.name) THEN <<>>
  ELSE <<Remark(Unexported, d, <<CreateInsertion(FunctionInsertionPoint(d))>>)>>

\* Whether VisitFunctionDecl gets as far as calling get_ignored_functions().
idt2_ReachesIgnoreList(d) ==
  /\ ~d.is_in_system_header /\ ~d.is_dependent_context /\ ~hasBody(d)
  /\ ~isa_FriendDecl(d) /\ ~(d.is_deleted \/ d.is_defaulted)
  /\ ~(isa_CXXMethodDecl(d) /\ (d.access = "private" \/ d.is_pure_virtual))
  /\ ~hasDllAttr(d)

----------------------------------------------------------------------------
\* libtool_fixit (part_000).

fixit_VisitFunctionDecl(d) ==
  IF d.is_in_system_header THEN <<>>
  ELSE IF hasBody(d) THEN <<>>
  ELSE IF isa_CXXMethodDecl(d) THEN <<>>
  ELSE IF isa_FriendDecl(d) THEN <<>>
  ELSE IF hasDllAttr(d) THEN <<>>
  ELSE IF contains(fixit_kIgnoredFunctions, d.name) THEN <<>>
  ELSE <<Remark(Unexported, d, <<CreateInsertion(Loc("BeginLoc", 0, TRUE))>>)>>

fixit_VisitCXXMethodDecl(d) ==
  IF d.is_in_system_header THEN <<>>
  ELSE IF d.is_dependent_context THEN <<>>
  ELSE IF hasBody(d) THEN <<>>
  ELSE IF isa_FriendDecl(d) THEN <<>>
  ELSE IF d.is_deleted \/ d.is_defaulted THEN <<>>
  ELSE IF d.access = "private"
       THEN IF hasAttr(d, "export")
            THEN <<Remark(ExportedPrivate, d, <<>>)>>
            ELSE <<>>
  ELSE IF hasDllAttr(d) THEN <<>>
  ELSE <<Remark(Unexported, d, <<CreateInsertion(Loc("BeginLoc", 0, TRUE))>>)>>

----------------------------------------------------------------------------
\* libtool (libtool.cc): prints the declaration instead of reporting a remark.

libtool_diagnose(d) == Remark(Listed, d, <<>>)

libtool_VisitFunctionDecl(d) ==
  IF d.is_in_system_header THEN <<>>
  ELSE IF hasBody(d) THEN <<>>
  ELSE IF isa_CXXMethodDecl(d) THEN <<>>
  ELSE IF hasDllAttr(d) THEN <<>>
  ELSE IF contains(libtool_kIgnoredFunctions, d.name) THEN <<>>
  ELSE <<libtool_diagnose(d)>>

libtool_VisitCXXMethodDecl(d) ==
  IF d.is_in_system_header THEN <<>>
  ELSE IF d.is_dependent_context THEN <<>>
  ELSE IF hasBody(d) THEN <<>>
  ELSE IF d.is_deleted \/ d.is_defaulted THEN <<>>
  ELSE IF hasDllAttr(d) THEN <<>>
  ELSE (IF d.access = "private" /\ hasAttr(d, "export")
        THEN <<libtool_diagnose(d)>> ELSE <<>>)
       \o <<libtool_diagnose(d)>>

----------------------------------------------------------------------------
\* The run.

\* The command lines a tool accepts: an option a tool does not declare is
\* left at its default.
ArgvOf(t) ==
  [annotate : IF t = "idt" THEN BOOLEAN ELSE {TRUE},
   fixits : IF t = "libtool" THEN {FALSE} ELSE BOOLEAN,
   ignore : IF t = "idt_ignore" THEN IgnoreArgs(MaxIgnoreNames)
            ELSE {<<>>}]

\* RecursiveASTVisitor walks up from the dynamic class of the declaration
\* and calls the Visit* callbacks the visitor defines, base class first.
Dispatch(t, d) ==
  CASE t = "idt" ->
         (CASE d.kind \in FunctionKinds -> <<"VisitFunctionDecl">>
            [] d.kind = "Record" -> <<"VisitCXXRecordDecl">>
            [] d.kind = "CTSD" -> <<"VisitCXXRecordDecl",
                                    "VisitClassTemplateSpecializationDecl">>
            [] d.kind = "Var" -> <<"VisitVarDecl">>)
    [] t = "idt_ignore" ->
         IF d.kind \in FunctionKinds THEN <<"VisitFunctionDecl">> ELSE <<>>
    [] t \in {"libtool_fixit", "libtool"} ->
         (CASE d.kind = "Function" -> <<"VisitFunctionDecl">>
            [] d.kind = "Method" -> <<"VisitFunctionDecl", "VisitCXXMethodDecl">>
            [] OTHER -> <<>>)

Init ==
  /\ tool \in Tools
  /\ argv \in ArgvOf(tool)
  /\ annotateClasses = TRUE
  /\ apply_fixits = FALSE
  /\ ignored_functions = <<>>
  /\ ignoredCache = NotBuilt
  /\ pc = "main"
  /\ visited = 0
  /\ cur = NoDecl
  /\ pending = <<>>
  /\ diags = <<>>
  /\ written = FALSE

\* main: CommonOptionsParser::create, then ClangTool::run.
main ==
  /\ pc = "main"
  /\ annotateClasses' = argv.annotate
  /\ apply_fixits' = argv.fixits
  /\ ignored_functions' = ParseIgnore(argv.ignore)
  /\ pc' = "tu"
  /\ UNCHANGED <<tool, argv, ignoredCache, visited, cur, pending, diags, written>>

\* consumer::HandleTranslationUnit, up to the traversal.
HandleTranslationUnit ==
  /\ pc = "tu"
  /\ pc' = "traverse"
  /\ UNCHANGED <<tool, argv, annotateClasses, apply_fixits, ignored_functions,
                 ignoredCache, visited, cur, pending, diags, written>>

\* visitor_.TraverseDecl: the traversal reaches the next declaration.
TraverseDecl ==
  /\ pc = "traverse"
  /\ cur = NoDecl
  /\ visited < MaxDecls
  /\ \E d \in Facts :
        /\ cur' = d
        /\ pending' = Dispatch(tool, d)
  /\ visited' = visited + 1
  /\ UNCHANGED <<tool, argv, annotateClasses, apply_fixits, ignored_functions,
                 ignoredCache, pc, diags, written>>

\* Report, were a remark to end the run instead of returning true.
Report_Halts(callback, remarks) ==
  /\ pc = "traverse"
  /\ pending # <<>>
  /\ Head(pending) = callback
  /\ pending' = Tail(pending)
  /\ diags' = diags \o [i \in DOMAIN remarks |->
                          [decl |-> visited, id |-> remarks[i].id,
                           fixits |-> remarks[i].fixits]]
  /\ pc' = IF remarks = <<>> THEN pc ELSE "done"
  /\ UNCHANGED <<tool, argv, annotateClasses, apply_fixits, ignored_functions,
                 visited, cur, written>>

\* A callback reports its remarks on the current declaration and returns true.
Report(callback, remarks) ==
  /\ pc = "traverse"
  /\ pending # <<>>
  /\ Head(pending) = callback
  /\ pending' = Tail(pending)
  /\ diags' = diags \o [i \in DOMAIN remarks |->
                          [decl |-> visited, id |-> remarks[i].id,
                           fixits |-> remarks[i].fixits]]
  /\ UNCHANGED <<tool, argv, annotateClasses, apply_fixits, ignored_functions,
                 pc, visited, cur, written>>

idt_FunctionDecl ==
  /\ tool = "idt"
  /\ Report("VisitFunctionDecl", idt_VisitFunctionDecl(cur, annotateClasses))
  /\ UNCHANGED ignoredCache

idt_ClassTemplateSpecializationDecl ==
  /\ tool = "idt"
  /\ Report("VisitClassTemplateSpecializationDecl",
            idt_VisitClassTemplateSpecializationDecl(cur))
  /\ UNCHANGED ignoredCache

idt_VarDecl ==
  /\ tool = "idt"
  /\ Report("VisitVarDecl", idt_VisitVarDecl(cur))
  /\ UNCHANGED ignoredCache

idt_CXXRecordDecl ==
  /\ tool = "idt"
  /\ Report("VisitCXXRecordDecl", idt_VisitCXXRecordDecl(cur, annotateClasses))
  /\ UNCHANGED ignoredCache

\* The static set of get_ignored_functions() is built by the first call.
idt2_FunctionDecl ==
  /\ tool = "idt_ignore"
  /\ LET kIgnoredFunctions == IF ignoredCache.built THEN ignoredCache.names
                               ELSE get_ignored_functions(ignored_functions)
     IN  /\ Report("VisitFunctionDecl",
                   idt2_VisitFunctionDecl(cur, kIgnoredFunctions))
         /\ ignoredCache' = IF idt2_ReachesIgnoreList(cur)
                            THEN Built(kIgnoredFunctions)
                            ELSE ignoredCache

fixit_FunctionDecl ==
  /\ tool = "libtool_fixit"
  /\ Report("VisitFunctionDecl", fixit_VisitFunctionDecl(cur))
  /\ UNCHANGED ignoredCache

fixit_CXXMethodDecl ==
  /\ tool = "libtool_fixit"
  /\ Report("VisitCXXMethodDecl", fixit_VisitCXXMethodDecl(cur))
  /\ UNCHANGED ignoredCache

libtool_FunctionDecl ==
  /\ tool = "libtool"
  /\ Report("VisitFunctionDecl", libtool_VisitFunctionDecl(cur))
  /\ UNCHANGED ignoredCache

libtool_CXXMethodDecl ==
  /\ tool = "libtool"
  /\ Report("VisitCXXMethodDecl", libtool_VisitCXXMethodDecl(cur))
  /\ UNCHANGED ignoredCache

\* Every callback of the current declaration has returned true: the
\* traversal leaves the declaration.
LeaveDecl ==
  /\ pc = "traverse"
  /\ cur # NoDecl
  /\ pending = <<>>
  /\ cur' = NoDecl
  /\ UNCHANGED <<tool, argv, annotateClasses, apply_fixits, ignored_functions,
                 ignoredCache, pc, visited, pending, diags, written>>

\* The traversal returns; rewriter_->WriteFixedFiles() under apply_fixits.
WriteFixedFiles ==
  /\ pc = "traverse"
  /\ cur = NoDecl
  /\ pc' = "done"
  /\ written' = apply_fixits
  /\ UNCHANGED <<tool, argv, annotateClasses, apply_fixits, ignored_functions,
                 ignoredCache, visited, cur, pending, diags>>

Next ==
  \/ main
  \/ HandleTranslationUnit
  \/ TraverseDecl
  \/ LeaveDecl
  \/ idt_FunctionDecl
  \/ idt_ClassTemplateSpecializationDecl
  \/ idt_VarDecl
  \/ idt_CXXRecordDecl
  \/ idt2_FunctionDecl
  \/ fixit_FunctionDecl
  \/ fixit_CXXMethodDecl
  \/ libtool_FunctionDecl
  \/ libtool_CXXMethodDecl
  \/ WriteFixedFiles

Spec == Init /\ [][Next]_vars

----------------------------------------------------------------------------
\* Verdicts.

\* The remarks reported on the current declaration so far.
curRemarks == SelectSeq(diags, LAMBDA r : r.decl = visited)

\* Every callback of the current declaration has returned.
Classified == pc = "traverse" /\ cur # NoDecl /\ pending = <<>>

Ids(rs) == {rs[i].id : i \in DOMAIN rs}

FlagUnexported(rs) == Unexported \in Ids(rs) \/ Listed \in Ids(rs)
FlagOverExportedPrivate(rs) == ExportedPrivate \in Ids(rs)
Skip(rs) == rs = <<>>

\* The ignore list the running tool consults.
IgnoreList ==
  CASE tool = "idt" -> idt_kIgnoredFunctions
    [] tool = "idt_ignore" -> get_ignored_functions(ignored_functions)
    [] tool = "libtool_fixit" -> fixit_kIgnoredFunctions
    [] tool = "libtool" -> libtool_kIgnoredFunctions

\* The remarks of one callback of tool t on declaration d.
Callback(t, callback, annotate, ignored, d) ==
  CASE t = "idt" /\ callback = "VisitFunctionDecl" ->
         idt_VisitFunctionDecl(d, annotate)
    [] t = "idt" /\ callback = "VisitCXXRecordDecl" ->
         idt_VisitCXXRecordDecl(d, annotate)
    [] t = "idt" /\ callback = "VisitClassTemplateSpecializationDecl" ->
         idt_VisitClassTemplateSpecializationDecl(d)
    [] t = "idt" /\ callback = "VisitVarDecl" -> idt_VisitVarDecl(d)
    [] t = "idt_ignore" /\ callback = "VisitFunctionDecl" ->
         idt2_VisitFunctionDecl(d, ignored)
    [] t = "libtool_fixit" /\ callback = "VisitFunctionDecl" ->
         fixit_VisitFunctionDecl(d)
    [] t = "libtool_fixit" /\ callback = "VisitCXXMethodDecl" ->
         fixit_VisitCXXMethodDecl(d)
    [] t = "libtool" /\ callback = "VisitFunctionDecl" ->
         libtool_VisitFunctionDecl(d)
    [] t = "libtool" /\ callback = "VisitCXXMethodDecl" ->
         libtool_VisitCXXMethodDecl(d)

RECURSIVE RunCallbacks(_, _, _, _, _)
RunCallbacks(t, callbacks, annotate, ignored, d) ==
  IF callbacks = <<>> THEN <<>>
  ELSE Callback(t, Head(callbacks), annotate, ignored, d)
       \o RunCallbacks(t, Tail(callbacks), annotate, ignored, d)

\* All remarks tool t reports on declaration d.
classify(t, annotate, ignored, d) ==
  RunCallbacks(t, Dispatch(t, d), annotate, ignored, d)

\* No skip condition of the function decision list is raised by d.
Plain(d) == FunctionFlags(d) = 0

----------------------------------------------------------------------------
\* C1: a function or method declaration that has a body gets no remark,
\* neither 'unexported public interface' nor 'exported private interface',
\* whatever its access, attribute, name, template kind and the tool's options.
C1_BodySkips ==
  (cur.kind \in FunctionKinds /\ cur.has_body) => Skip(curRemarks)

C1_Witness ==
  /\ Classified
  /\ tool = "idt" /\ ~annotateClasses
  /\ cur.kind = "Method" /\ cur.has_body
  /\ cur.access = "private" /\ cur.export_attr = "export"
  /\ Skip(curRemarks)

\* C2: a declaration of any kind located in a system header gets no remark.
C2_SystemHeaderSkips ==
  (Classified /\ cur.is_in_system_header) => Skip(curRemarks)

\* C3: a private method that no earlier guard of the decision list skips
\* gets no remark when it has no export attribute, and the remark 'exported
\* private interface' when it has any of export, import or visibility.
C3_PrivateMethod ==
  (/\ Classified
   /\ cur.kind = "Method" /\ cur.access = "private"
   /\ Plain(cur)
   /\ tool = "idt" => ~annotateClasses)
  => IF cur.export_attr = "none" THEN Skip(curRemarks)
     ELSE FlagOverExportedPrivate(curRemarks) /\ ~FlagUnexported(curRemarks)

C5_Idempotent ==
  (Classified /\ FlagUnexported(curRemarks))
  => \A a \in Attrs \ {"none"} :
       Skip(classify(tool, annotateClasses, IgnoreList,
                     [cur EXCEPT !.export_attr = a]))

\* Guards 1 to 6 of the function decision list: path heuristic, system
\* header, dependent context, body, friend, deleted or defaulted.
Guards1to6(d) ==
  \/ d.pathInternal \/ d.is_in_system_header \/ d.is_dependent_context
  \/ d.has_body \/ d.is_friend \/ d.is_deleted \/ d.is_defaulted

\* C6: with annotate_classes = false, idt flags no record and no class
\* template specialization, and a function or method is flagged
\* 'unexported public interface' exactly when the function decision list
\* without its method-skip guard (guard 7) flags it.
C6_NoClassAnnotation ==
  (Classified /\ tool = "idt" /\ ~annotateClasses)
  => /\ cur.kind \in RecordKinds => Skip(curRemarks)
     /\ cur.kind \in FunctionKinds =>
          FlagUnexported(curRemarks) =
            (/\ ~Guards1to6(cur) /\ cur.access # "private"
             /\ ~cur.is_pure_virtual /\ cur.export_attr = "none"
             /\ cur.name \notin IgnoreList)

\* The names given to -ignore, whatever way they are split over occurrences.
UserNames(values) ==
  UNION {Range(values[i]) \ {","} : i \in DOMAIN values}

\* C7: the ignore list the classification consults is the union of the
\* builtin names and the names given to -ignore, however these are split
\* over occurrences, and it never changes once built.
C7_IgnoreListIsUnion ==
  /\ []((tool = "idt_ignore" /\ ignoredCache.built)
        => ignoredCache.names = idt_kIgnoredFunctions \cup UserNames(argv.ignore))
  /\ [][ignoredCache.built => ignoredCache' = ignoredCache]_vars

\* C8: a function, constructor or method that is deleted or defaulted gets
\* no remark.
C8_DeletedDefaultedSkips ==
  (/\ Classified /\ cur.kind \in FunctionKinds
   /\ cur.is_deleted \/ cur.is_defaulted)
  => Skip(curRemarks)

\* C9: a function declared by a friend declaration gets no remark.
C9_FriendSkips ==
  (Classified /\ cur.kind \in FunctionKinds /\ cur.is_friend)
  => Skip(curRemarks)

\* C10: a pure virtual method that is not private gets no remark, whatever
\* annotate_classes, its attribute and its name.
C10_PureVirtualSkips ==
  (/\ Classified /\ cur.kind = "Method"
   /\ cur.is_pure_virtual /\ cur.access # "private")
  => Skip(curRemarks)

\* C11: the fix-it of a function or method flagged 'unexported public
\* interface' is at the begin location of a non-template declaration and at
\* the inner start location (after the template header) of any other.
C11_FunctionInsertionPoint ==
  (Classified /\ cur.kind \in FunctionKinds)
  => \A i \in DOMAIN curRemarks :
       curRemarks[i].id = Unexported
       => /\ Len(curRemarks[i].fixits) = 1
          /\ curRemarks[i].fixits[1].at =
               IF cur.template_kind = "non_template"
               THEN Loc("BeginLoc", 0, TRUE)
               ELSE Loc("InnerLocStart", 0, TRUE)

\* C12: no declaration gets more than one remark, also when it reaches
\* more than one Visit* callback.
C12_OneRemarkPerDecl == Len(curRemarks) <= 1

\* C13: every remark 'unexported public interface' carries exactly one
\* fix-it, the macro followed by one space; every remark 'exported private
\* interface' carries none.
C13_FixItText ==
  \A i \in DOMAIN diags :
    /\ diags[i].id = Unexported
       => /\ Len(diags[i].fixits) = 1
          /\ diags[i].fixits[1].text = <<export_macro, " ">>
    /\ diags[i].id = ExportedPrivate => diags[i].fixits = <<>>

\* The remarks are in the order their declarations were met.
InEncounterOrder ==
  \A i, j \in DOMAIN diags :
    i <= j => (1 <= diags[i].decl /\ diags[i].decl <= diags[j].decl
                                 /\ diags[j].decl <= visited)

\* One step of a run: declarations are entered one at a time and only when
\* the previous one was left; a remark is appended, on the current
\* declaration, and leaves the traversal going; the run ends only between
\* declarations, and the files are written by that last step alone.
OrderlyStep ==
  /\ visited' # visited
     => (visited' = visited + 1 /\ cur = NoDecl /\ pending = <<>>
                                /\ cur' # NoDecl /\ diags' = diags)
  /\ diags' # diags
     => /\ Len(diags') > Len(diags)
        /\ SubSeq(diags', 1, Len(diags)) = diags
        /\ \A i \in (Len(diags) + 1)..Len(diags') : diags'[i].decl = visited
        /\ pc' = "traverse" /\ cur' = cur /\ Len(pending') < Len(pending)
  /\ pending' # pending
     => IF pending = <<>> THEN visited' # visited
                          ELSE pending' = Tail(pending)
  /\ (pc' = "done" /\ pc # "done") => (cur = NoDecl /\ pending = <<>>)
  /\ written' # written => (pc # "done" /\ pc' = "done" /\ apply_fixits)
  /\ pc = "done" => UNCHANGED vars

\* What is left of the run: the steps before the traversal, the declarations
\* not yet entered, the callbacks due on the current one, leaving it, and
\* the return.
StepsLeft ==
  (IF pc = "main" THEN 3 ELSE IF pc = "tu" THEN 2 ELSE IF pc = "traverse" THEN 1 ELSE 0)
  + 4 * (MaxDecls - visited) + Len(pending) + (IF cur = NoDecl THEN 0 ELSE 1)

\* A run that has not returned has a step to take (the traversal may always
\* return between declarations, so TraverseDecl adds nothing here).
CanStep ==
  ENABLED (\/ main \/ HandleTranslationUnit \/ LeaveDecl \/ WriteFixedFiles
           \/ idt_FunctionDecl \/ idt_ClassTemplateSpecializationDecl
           \/ idt_VarDecl \/ idt_CXXRecordDecl \/ idt2_FunctionDecl
           \/ fixit_FunctionDecl \/ fixit_CXXMethodDecl
           \/ libtool_FunctionDecl \/ libtool_CXXMethodDecl)

\* C14: a run over a finite sequence of declarations ends (it is never
\* stuck before its return, and every step brings the return nearer); each
\* declaration is entered once, in order; remarks come in the order of their
\* declarations and never end the traversal; the fixed files are written
\* only by the step that ends the traversal, and exactly when apply_fixits
\* is set.
C14_RunInOrderToTheEnd ==
  /\ [](InEncounterOrder /\ (written => pc = "done")
                          /\ (pc = "done" => written = apply_fixits)
                          /\ (pc # "done" => CanStep))
  /\ [][OrderlyStep /\ StepsLeft' < StepsLeft]_vars

C14_Witness ==
  /\ pc = "done" /\ written /\ visited >= 2
  /\ \E i \in DOMAIN diags : diags[i].decl = 1
  /\ \E i \in DOMAIN diags : diags[i].decl = 2

\* The verdict the remarks on a declaration amount to.
VerdictOf(rs) ==
  IF FlagUnexported(rs) THEN "FlagUnexported"
  ELSE IF FlagOverExportedPrivate(rs) THEN "FlagOverExportedPrivate"
  ELSE "Skip"

\* The outcome of the first guard that matches, in the order of the list:
\* path, system header, dependent, body, friend, deleted or defaulted,
\* method under annotate_classes, private method, pure virtual, annotated,
\* ignore list.
FirstMatchingGuard(d, annotate, ignored) ==
  IF d.pathInternal THEN "Skip"
  ELSE IF d.is_in_system_header THEN "Skip"
  ELSE IF d.is_dependent_context THEN "Skip"
  ELSE IF d.has_body THEN "Skip"
  ELSE IF d.is_friend THEN "Skip"
  ELSE IF d.is_deleted \/ d.is_defaulted THEN "Skip"
  ELSE IF d.kind = "Method" /\ annotate THEN "Skip"
  ELSE IF d.kind = "Method" /\ d.access = "private"
       THEN IF d.export_attr # "none" THEN "FlagOverExportedPrivate" ELSE "Skip"
  ELSE IF d.is_pure_virtual THEN "Skip"
  ELSE IF d.export_attr # "none" THEN "Skip"
  ELSE IF d.name \in ignored THEN "Skip"
  ELSE "FlagUnexported"

\* C15: in idt the verdict of a function or method is the outcome of the
\* first matching guard of the list; a private method with an export
\* attribute is over-exported only when no earlier guard matches.
C15_FirstGuardWins ==
  (Classified /\ tool = "idt" /\ cur.kind \in FunctionKinds)
  => VerdictOf(curRemarks)
       = FirstMatchingGuard(cur, annotateClasses, idt_kIgnoredFunctions)

\* VisitCXXRecordDecl has returned on the current declaration (a class
\* template specialization has its own callback still to come).
RecordCallbackDone ==
  /\ pc = "traverse" /\ tool = "idt"
  /\ cur.kind \in RecordKinds
  /\ pending = IF cur.kind = "CTSD"
               THEN <<"VisitClassTemplateSpecializationDecl">> ELSE <<>>

\* C16: the record rule flags a record exactly when annotate_classes is
\* set, the name is not the sentinel, the path is not internal, it is not in
\* a system header, it is a complete definition, it is not nested, it has no
\* export attribute, it is not a union, its file was included, and it is not
\* an explicit instantiation (declaration or definition); otherwise the
\* record rule gives no remark.
C16_RecordFlaggedIff ==
  RecordCallbackDone
  => /\ FlagUnexported(curRemarks)
        = (/\ annotateClasses
           /\ cur.name # "LLVM_ABI"
           /\ ~cur.pathInternal
           /\ ~cur.is_in_system_header
           /\ cur.is_complete_definition
           /\ ~cur.is_nested
           /\ cur.export_attr = "none"
           /\ cur.tag # "union"
           /\ cur.included
           /\ cur.template_kind \notin {"explicit_instantiation_decl",
                                        "explicit_instantiation_def"})
     /\ ~FlagUnexported(curRemarks) => Skip(curRemarks)

C16_Witness ==
  /\ RecordCallbackDone /\ cur.kind = "Record" /\ cur.tag = "class"
  /\ FlagUnexported(curRemarks)

\* C17: a class-template specialization is skipped whenever annotate_classes
\* is false, it is in a system header, its path is internal or it has an
\* export attribute; a remark of its own callback has its fix-it at the
\* location of the 'extern' keyword.
C17_SpecializationGuards ==
  (Classified /\ tool = "idt" /\ cur.kind = "CTSD")
  => /\ (\/ ~annotateClasses \/ cur.is_in_system_header
         \/ cur.pathInternal \/ cur.export_attr # "none")
        => Skip(curRemarks)
     /\ Len(curRemarks) > Len(idt_VisitCXXRecordDecl(cur, annotateClasses))
        => curRemarks[Len(curRemarks)].fixits
             = <<CreateInsertion(Loc("ExternLoc", 0, TRUE))>>

C19_ValidInsertionPoint ==
  /\ \A i \in DOMAIN diags :
       diags[i].id = Unexported
       => (diags[i].fixits # <<>>
           /\ \A k \in DOMAIN diags[i].fixits : diags[i].fixits[k].at.valid)
  /\ (Classified /\ tool = "idt" /\ cur.kind = "CTSD"
                 /\ ~getExternLoc(cur).valid)
     => Len(curRemarks) = Len(idt_VisitCXXRecordDecl(cur, annotateClasses))

====
